---- MODULE Spec2Model ----
(***************************************************************************)
(* A model of the CsasziCompare diff / merge engine                        *)
(* (src/CsasziCompare/csaszicompare/diff_engine.py) and of the two views   *)
(* that drive it.  A line of text is a sequence of one-character strings;  *)
(* a text is a sequence of lines.  Indices follow Python: positions are    *)
(* 0-based inside the operators and s[i] of the code is s[i + 1] here.     *)
(***************************************************************************)
EXTENDS Integers, Sequences, FiniteSets, TLC

VARIABLES pc, base_lines, left_lines, right_lines, context, raw, result,
          fold_in, chunks, left_rows, center_rows, right_rows, merge_saved

vars == <<pc, base_lines, left_lines, right_lines, context, raw, result,
          fold_in, chunks, left_rows, center_rows, right_rows, merge_saved>>

(* ------------------------------ bounds -------------------------------- *)

\* longest text handed to diff_lines
MaxLen == 3
\* longest text handed to merge3
MaxMergeLen == 3
\* largest context handed to diff_lines
MaxContext == 2
\* longest synthetic record stream handed to the folding stage
MaxStream == 101
\* largest context of the synthetic folding runs
MaxFoldContext == 3

(* --------------------------- Python helpers --------------------------- *)

\* Optional[int] None (left_lineno, right_lineno, context)
None == -1

Min(x, y) == IF x <= y THEN x ELSE y

Max(x, y) == IF x >= y THEN x ELSE y

\* s[lo:hi] for 0 <= lo, with the clamping Python slices do
Slice(s, lo, hi) ==
    LET h == Min(hi, Len(s)) IN
    IF lo >= h THEN <<>> ELSE SubSeq(s, lo + 1, h)

\* s[-n:] for n >= 0; -0 is 0 in Python, so s[-0:] is the whole of s
NegSlice(s, n) ==
    IF n = 0 THEN s ELSE Slice(s, Max(Len(s) - n, 0), Len(s))

\* every text of at most n lines over the lines of set L
Texts(L, n) == UNION {[1..k -> L] : k \in 0..n}

(* ------------------- difflib.SequenceMatcher (no junk) ---------------- *)

\* a mutation of RunLen: the run length of the previous row is not carried
\* over, so no run is longer than one
RunLenNoCarry(a, b, i, j, alo, blo) ==
    IF a[i + 1] # b[j + 1] THEN 0 ELSE 1

\* j2len[j] while the outer loop is at i: the length of the common run that
\* ends at a[i], b[j] and stays inside a[alo:], b[blo:]
RECURSIVE RunLen(_, _, _, _, _, _)
RunLen(a, b, i, j, alo, blo) ==
    IF a[i + 1] # b[j + 1] THEN 0
    ELSE IF i = alo \/ j = blo THEN 1
    ELSE 1 + RunLen(a, b, i - 1, j - 1, alo, blo)

\* a mutation of RowScan: the best block is also replaced by one of the same
\* length
RECURSIVE RowScanLast(_, _, _, _, _, _, _, _)
RowScanLast(a, b, alo, blo, bhi, i, j, best) ==
    IF j >= bhi THEN best
    ELSE LET k == RunLen(a, b, i, j, alo, blo) IN
         IF k > 0 /\ k >= best[3]
         THEN RowScanLast(a, b, alo, blo, bhi, i, j + 1, <<i - k + 1, j - k + 1, k>>)
         ELSE RowScanLast(a, b, alo, blo, bhi, i, j + 1, best)

\* the inner loop of find_longest_match, over the positions j of b for one
\* i; the best block is replaced only by a strictly longer one
RECURSIVE RowScan(_, _, _, _, _, _, _, _)
RowScan(a, b, alo, blo, bhi, i, j, best) ==
    IF j >= bhi THEN best
    ELSE LET k == RunLen(a, b, i, j, alo, blo) IN
         IF k > best[3]
         THEN RowScan(a, b, alo, blo, bhi, i, j + 1, <<i - k + 1, j - k + 1, k>>)
         ELSE RowScan(a, b, alo, blo, bhi, i, j + 1, best)

\* the outer loop of find_longest_match, over the positions i of a
RECURSIVE LongestScan(_, _, _, _, _, _, _, _)
LongestScan(a, b, alo, ahi, blo, bhi, i, best) ==
    IF i >= ahi THEN best
    ELSE LongestScan(a, b, alo, ahi, blo, bhi, i + 1,
                     RowScan(a, b, alo, blo, bhi, i, blo, best))

\* the extension loops after the scan (nothing is junk, so only the
\* equality tests remain)
RECURSIVE ExtendBack(_, _, _, _, _)
ExtendBack(a, b, alo, blo, m) ==
    IF m[1] > alo /\ m[2] > blo /\ a[m[1]] = b[m[2]]
    THEN ExtendBack(a, b, alo, blo, <<m[1] - 1, m[2] - 1, m[3] + 1>>)
    ELSE m

RECURSIVE ExtendFwd(_, _, _, _, _)
ExtendFwd(a, b, ahi, bhi, m) ==
    IF m[1] + m[3] < ahi /\ m[2] + m[3] < bhi
       /\ a[m[1] + m[3] + 1] = b[m[2] + m[3] + 1]
    THEN ExtendFwd(a, b, ahi, bhi, <<m[1], m[2], m[3] + 1>>)
    ELSE m

FindLongestMatch(a, b, alo, ahi, blo, bhi) ==
    ExtendFwd(a, b, ahi, bhi,
        ExtendBack(a, b, alo, blo,
            LongestScan(a, b, alo, ahi, blo, bhi, alo, <<alo, blo, 0>>)))

\* a mutation of MatchRec: the ranges right of a match are not searched
RECURSIVE MatchRecNoRight(_, _, _, _, _, _)
MatchRecNoRight(a, b, alo, ahi, blo, bhi) ==
    LET m == FindLongestMatch(a, b, alo, ahi, blo, bhi)
        i == m[1]
        j == m[2]
        k == m[3]
    IN  IF k = 0 THEN <<>>
        ELSE (IF alo < i /\ blo < j THEN MatchRecNoRight(a, b, alo, i, blo, j) ELSE <<>>)
             \o <<m>>

\* the queue of get_matching_blocks followed by its sort: the blocks left of
\* a match, the match, the blocks right of it
RECURSIVE MatchRec(_, _, _, _, _, _)
MatchRec(a, b, alo, ahi, blo, bhi) ==
    LET m == FindLongestMatch(a, b, alo, ahi, blo, bhi)
        i == m[1]
        j == m[2]
        k == m[3]
    IN  IF k = 0 THEN <<>>
        ELSE (IF alo < i /\ blo < j THEN MatchRec(a, b, alo, i, blo, j) ELSE <<>>)
             \o <<m>>
             \o (IF i + k < ahi /\ j + k < bhi
                 THEN MatchRec(a, b, i + k, ahi, j + k, bhi) ELSE <<>>)

\* adjacent blocks are merged into one (i1, j1, k1 the pending block)
RECURSIVE Collapse(_, _, _)
Collapse(blocks, n, cur) ==
    IF n > Len(blocks) THEN (IF cur[3] > 0 THEN <<cur>> ELSE <<>>)
    ELSE LET nx == blocks[n] IN
         IF cur[1] + cur[3] = nx[1] /\ cur[2] + cur[3] = nx[2]
         THEN Collapse(blocks, n + 1, <<cur[1], cur[2], cur[3] + nx[3]>>)
         ELSE (IF cur[3] > 0 THEN <<cur>> ELSE <<>>) \o Collapse(blocks, n + 1, nx)

GetMatchingBlocks(a, b) ==
    Collapse(MatchRec(a, b, 0, Len(a), 0, Len(b)), 1, <<0, 0, 0>>)
    \o <<  <<Len(a), Len(b), 0>>  >>

Opcode(tag, i1, i2, j1, j2) == [tag |-> tag, i1 |-> i1, i2 |-> i2, j1 |-> j1, j2 |-> j2]

\* a mutation of OpcodeLoop: a gap on both sides gives a delete opcode and an
\* insert opcode instead of one replace opcode
RECURSIVE OpcodeLoopSplitReplace(_, _, _, _)
OpcodeLoopSplitReplace(blocks, n, i, j) ==
    IF n > Len(blocks) THEN <<>>
    ELSE LET ai == blocks[n][1]
             bj == blocks[n][2]
             size == blocks[n][3]
         IN  (IF i < ai THEN <<Opcode("delete", i, ai, j, j)>> ELSE <<>>)
             \o (IF j < bj THEN <<Opcode("insert", ai, ai, j, bj)>> ELSE <<>>)
             \o (IF size > 0
                 THEN <<Opcode("equal", ai, ai + size, bj, bj + size)>> ELSE <<>>)
             \o OpcodeLoopSplitReplace(blocks, n + 1, ai + size, bj + size)

\* the loop of get_opcodes over the matching blocks, from position (i, j)
RECURSIVE OpcodeLoop(_, _, _, _)
OpcodeLoop(blocks, n, i, j) ==
    IF n > Len(blocks) THEN <<>>
    ELSE LET ai == blocks[n][1]
             bj == blocks[n][2]
             size == blocks[n][3]
             tag == IF i < ai /\ j < bj THEN "replace"
                    ELSE IF i < ai THEN "delete"
                    ELSE IF j < bj THEN "insert"
                    ELSE ""
         IN  (IF tag # "" THEN <<Opcode(tag, i, ai, j, bj)>> ELSE <<>>)
             \o (IF size > 0
                 THEN <<Opcode("equal", ai, ai + size, bj, bj + size)>> ELSE <<>>)
             \o OpcodeLoop(blocks, n + 1, ai + size, bj + size)

GetOpcodes(a, b) == OpcodeLoop(GetMatchingBlocks(a, b), 1, 0, 0)

(* ----------------------- _char_diff and diff_lines -------------------- *)

CharSpan(start, end, tag) == [start |-> start, end |-> end, tag |-> tag]

\* the loop of _char_diff: side "left" collects left_spans, "right" right_spans
RECURSIVE CharSpanLoop(_, _, _)
CharSpanLoop(ops, n, side) ==
    IF n > Len(ops) THEN <<>>
    ELSE LET o == ops[n]
             here ==
                 IF o.tag = "equal"
                 THEN (IF side = "left" THEN <<CharSpan(o.i1, o.i2, "equal")>>
                       ELSE <<CharSpan(o.j1, o.j2, "equal")>>)
                 ELSE IF o.tag = "replace"
                 THEN (IF side = "left" THEN <<CharSpan(o.i1, o.i2, "delete")>>
                       ELSE <<CharSpan(o.j1, o.j2, "insert")>>)
                 ELSE IF o.tag = "delete"
                 THEN (IF side = "left" THEN <<CharSpan(o.i1, o.i2, "delete")>> ELSE <<>>)
                 ELSE (IF side = "left" THEN <<>> ELSE <<CharSpan(o.j1, o.j2, "insert")>>)
         IN  here \o CharSpanLoop(ops, n + 1, side)

\* a mutation of CharDiff: the two span lists are returned in the wrong order
CharDiffSwapped(old_line, new_line) ==
    LET ops == GetOpcodes(old_line, new_line)
    IN  <<CharSpanLoop(ops, 1, "right"), CharSpanLoop(ops, 1, "left")>>

\* _char_diff(old_line, new_line) = <<left_spans, right_spans>>
CharDiff(old_line, new_line) ==
    LET ops == GetOpcodes(old_line, new_line)
    IN  <<CharSpanLoop(ops, 1, "left"), CharSpanLoop(ops, 1, "right")>>

DiffLine(tag, ll, rl, lt, rt, ls, rs) ==
    [tag |-> tag, left_lineno |-> ll, right_lineno |-> rl,
     left_text |-> lt, right_text |-> rt,
     left_char_spans |-> ls, right_char_spans |-> rs]

\* the separator record the folding stage inserts
HunkLine == DiffLine("HUNK", None, None, <<>>, <<>>, <<>>, <<>>)

EqualRecords(left, right, o) ==
    [k \in 1..(o.i2 - o.i1) |->
        DiffLine("EQUAL", o.i1 + k, o.j1 + k, left[o.i1 + k], right[o.j1 + k],
                 <<>>, <<>>)]

\* a mutation of DeleteRecords: the deleted lines get no record
DeleteRecordsNone(left, lo, hi) == <<>>

DeleteRecords(left, lo, hi) ==
    [k \in 1..(hi - lo) |->
        DiffLine("DELETE", lo + k, None, left[lo + k], <<>>, <<>>, <<>>)]

\* a mutation of InsertRecords: right_lineno is the 0-based index
InsertRecordsZeroBased(right, lo, hi) ==
    [k \in 1..(hi - lo) |->
        DiffLine("INSERT", None, lo + k - 1, <<>>, right[lo + k], <<>>, <<>>)]

InsertRecords(right, lo, hi) ==
    [k \in 1..(hi - lo) |->
        DiffLine("INSERT", None, lo + k, <<>>, right[lo + k], <<>>, <<>>)]

\* a mutation of ReplaceRecords: the new lines beyond the paired ones are lost
ReplaceRecordsNoExcessInsert(left, right, o) ==
    LET n_old == o.i2 - o.i1
        n_new == o.j2 - o.j1
        n_common == Min(n_old, n_new)
    IN  [k \in 1..n_common |->
            DiffLine("REPLACE", o.i1 + k, o.j1 + k, left[o.i1 + k], right[o.j1 + k],
                     CharDiff(left[o.i1 + k], right[o.j1 + k])[1],
                     CharDiff(left[o.i1 + k], right[o.j1 + k])[2])]
        \o DeleteRecords(left, o.i1 + n_common, o.i1 + Max(n_old, n_common))

\* a mutation of ReplaceRecords: no positional pairing, all old lines are
\* deleted and all new lines inserted
ReplaceRecordsDeleteInsert(left, right, o) ==
    DeleteRecords(left, o.i1, o.i2) \o InsertRecords(right, o.j1, o.j2)

\* the "replace" branch: positional pairs, then the excess old lines, then
\* the excess new lines
ReplaceRecords(left, right, o) ==
    LET n_old == o.i2 - o.i1
        n_new == o.j2 - o.j1
        n_common == Min(n_old, n_new)
    IN  [k \in 1..n_common |->
            DiffLine("REPLACE", o.i1 + k, o.j1 + k, left[o.i1 + k], right[o.j1 + k],
                     CharDiff(left[o.i1 + k], right[o.j1 + k])[1],
                     CharDiff(left[o.i1 + k], right[o.j1 + k])[2])]
        \o DeleteRecords(left, o.i1 + n_common, o.i1 + Max(n_old, n_common))
        \o InsertRecords(right, o.j1 + n_common, o.j1 + Max(n_new, n_common))

\* the loop over the opcodes that fills raw
RECURSIVE RawLoop(_, _, _, _)
RawLoop(left, right, ops, n) ==
    IF n > Len(ops) THEN <<>>
    ELSE LET o == ops[n] IN
         (IF o.tag = "equal" THEN EqualRecords(left, right, o)
          ELSE IF o.tag = "replace" THEN ReplaceRecords(left, right, o)
          ELSE IF o.tag = "delete" THEN DeleteRecords(left, o.i1, o.i2)
          ELSE InsertRecords(right, o.j1, o.j2))
         \o RawLoop(left, right, ops, n + 1)

\* raw as diff_lines has it before the context test
RawDiff(left, right) == RawLoop(left, right, GetOpcodes(left, right), 1)

(* ------------------- context folding inside diff_lines ---------------- *)

\* interesting_indices[n..]: the 0-based indices of the records that are not EQUAL
RECURSIVE InterestingFrom(_, _)
InterestingFrom(rw, i) ==
    IF i >= Len(rw) THEN <<>>
    ELSE (IF rw[i + 1].tag # "EQUAL" THEN <<i>> ELSE <<>>) \o InterestingFrom(rw, i + 1)

InterestingIndices(rw) == InterestingFrom(rw, 0)

\* the branch taken when no record is interesting
FoldAllEqual(rw, ctx) ==
    IF Len(rw) > ctx * 2
    THEN Slice(rw, 0, ctx) \o <<HunkLine>> \o NegSlice(rw, ctx)
    ELSE rw

\* the records one window appends: raw[i] for i in range(start, stop) if i > last
WindowRecords(rw, start, stop, last) ==
    LET lo == Max(start, last + 1) IN Slice(rw, lo, stop)

\* a mutation of FoldLoop: the window stops one record early
RECURSIVE FoldLoopShortWindow(_, _, _, _, _)
FoldLoopShortWindow(rw, ctx, idxs, n, st) ==
    IF n > Len(idxs) THEN st
    ELSE LET idx == idxs[n]
             res == st[1]
             last == st[2]
             start == Max(last + 1, idx - ctx)
             sep == IF res # <<>> /\ start > last + 1 THEN <<HunkLine>> ELSE <<>>
             win == WindowRecords(rw, start, Min(idx + ctx, Len(rw)), last)
         IN  FoldLoopShortWindow(rw, ctx, idxs, n + 1,
                                 <<res \o sep \o win, Max(last, idx + ctx)>>)

\* the loop over interesting_indices; st = <<result, last_interesting>>
RECURSIVE FoldLoop(_, _, _, _, _)
FoldLoop(rw, ctx, idxs, n, st) ==
    IF n > Len(idxs) THEN st
    ELSE LET idx == idxs[n]
             res == st[1]
             last == st[2]
             start == Max(last + 1, idx - ctx)
             sep == IF res # <<>> /\ start > last + 1 THEN <<HunkLine>> ELSE <<>>
             win == WindowRecords(rw, start, Min(idx + ctx + 1, Len(rw)), last)
         IN  FoldLoop(rw, ctx, idxs, n + 1, <<res \o sep \o win, Max(last, idx + ctx)>>)

\* the trailing context after the last window
FoldTail(rw, ctx, st) ==
    LET remaining_start == st[2] + 1 IN
    IF remaining_start < Len(rw)
    THEN st[1] \o Slice(rw, remaining_start, remaining_start + ctx)
         \o (IF remaining_start + ctx < Len(rw) THEN <<HunkLine>> ELSE <<>>)
    ELSE st[1]

\* lines 176-219 of diff_lines: fold raw with an integer context
Fold(rw, ctx) ==
    LET idxs == InterestingIndices(rw) IN
    IF idxs = <<>> THEN FoldAllEqual(rw, ctx)
    ELSE FoldTail(rw, ctx, FoldLoop(rw, ctx, idxs, 1, <<<<>>, -1>>))

\* diff_lines(left_lines, right_lines, context)
DiffLinesOf(left, right, ctx) ==
    IF ctx = None THEN RawDiff(left, right) ELSE Fold(RawDiff(left, right), ctx)

(* ---------------- DiffView._fold_context (diff_view.py) --------------- *)

\* interesting[n..]: the 0-based indices i with raw[i].tag != EQUAL
RECURSIVE ViewInterestingFrom(_, _)
ViewInterestingFrom(rw, i) ==
    IF i >= Len(rw) THEN <<>>
    ELSE (IF rw[i + 1].tag # "EQUAL" THEN <<i>> ELSE <<>>)
         \o ViewInterestingFrom(rw, i + 1)

\* the "All equal" branch of _fold_context
ViewAllEqual(rw, ctx) ==
    IF Len(rw) > ctx * 2
    THEN Slice(rw, 0, ctx) \o <<HunkLine>> \o NegSlice(rw, ctx)
    ELSE rw

\* a mutation of ViewFoldLoop: a separator is also put before the first
\* window
RECURSIVE ViewFoldLoopLeadingHunk(_, _, _, _, _)
ViewFoldLoopLeadingHunk(rw, ctx, interesting, n, st) ==
    IF n > Len(interesting) THEN st
    ELSE LET idx == interesting[n]
             last == st[2]
             start == Max(last + 1, idx - ctx)
             stop == Min(idx + ctx + 1, Len(rw))
             sep == IF start > last + 1 THEN <<HunkLine>> ELSE <<>>
             win == Slice(rw, Max(start, last + 1), stop)
         IN  ViewFoldLoopLeadingHunk(rw, ctx, interesting, n + 1,
                                     <<st[1] \o sep \o win, Max(last, idx + ctx)>>)

\* the loop "for idx in interesting"; st = <<result, last>>; the window is
\* raw[i] for i in range(start, min(idx + context + 1, len(raw))) if i > last
RECURSIVE ViewFoldLoop(_, _, _, _, _)
ViewFoldLoop(rw, ctx, interesting, n, st) ==
    IF n > Len(interesting) THEN st
    ELSE LET idx == interesting[n]
             last == st[2]
             start == Max(last + 1, idx - ctx)
             stop == Min(idx + ctx + 1, Len(rw))
             sep == IF st[1] # <<>> /\ start > last + 1 THEN <<HunkLine>> ELSE <<>>
             win == Slice(rw, Max(start, last + 1), stop)
         IN  ViewFoldLoop(rw, ctx, interesting, n + 1,
                          <<st[1] \o sep \o win, Max(last, idx + ctx)>>)

\* the part of _fold_context after the loop
ViewFoldTail(rw, ctx, st) ==
    LET remaining == st[2] + 1 IN
    IF remaining < Len(rw)
    THEN st[1] \o Slice(rw, remaining, remaining + ctx)
         \o (IF remaining + ctx < Len(rw) THEN <<HunkLine>> ELSE <<>>)
    ELSE st[1]

\* DiffView._fold_context(raw, context)
FoldContext(rw, ctx) ==
    IF rw = <<>> THEN rw
    ELSE LET interesting == ViewInterestingFrom(rw, 0) IN
         IF interesting = <<>> THEN ViewAllEqual(rw, ctx)
         ELSE ViewFoldTail(rw, ctx, ViewFoldLoop(rw, ctx, interesting, 1, <<<<>>, -1>>))

(* ------------------------- the two-way differ ------------------------- *)

\* the lines the two-way runs draw their texts from: "a", "b", "ab"
DiffLineSet == {<<"a">>, <<"b">>, <<"a", "b">>}

Contexts == {None} \cup (0..MaxContext)

InitDiff ==
    /\ pc = "input"
    /\ left_lines \in Texts(DiffLineSet, MaxLen)
    /\ right_lines \in Texts(DiffLineSet, MaxLen)
    /\ base_lines = <<>>
    /\ context = None
    /\ raw = <<>>
    /\ result = <<>>
    /\ fold_in = <<>>
    /\ chunks = <<>>
    /\ left_rows = <<>>
    /\ center_rows = <<>>
    /\ right_rows = <<>>
    /\ merge_saved = <<>>

\* one call diff_lines(left_lines, right_lines, ctx)
DiffLines(ctx) ==
    /\ pc = "input"
    /\ context' = ctx
    /\ raw' = RawDiff(left_lines, right_lines)
    /\ result' = DiffLinesOf(left_lines, right_lines, ctx)
    /\ fold_in' = RawDiff(left_lines, right_lines)
    /\ pc' = "diffed"
    /\ UNCHANGED <<base_lines, left_lines, right_lines, chunks,
                   left_rows, center_rows, right_rows, merge_saved>>

\* the folding stage run again on the stream it returned
FoldAgain ==
    /\ pc \in {"diffed", "refolded"}
    /\ context # None
    /\ fold_in' = result
    /\ result' = Fold(result, context)
    /\ pc' = "refolded"
    /\ UNCHANGED <<base_lines, left_lines, right_lines, context, raw, chunks,
                   left_rows, center_rows, right_rows, merge_saved>>

\* the diff view folds the raw stream it got from diff_lines(.., context=None)
\* with DiffView._fold_context(raw, k)
FoldContextCall(k) ==
    /\ pc = "diffed"
    /\ context = None
    /\ context' = k
    /\ fold_in' = result
    /\ result' = FoldContext(result, k)
    /\ pc' = "view_folded"
    /\ UNCHANGED <<base_lines, left_lines, right_lines, raw, chunks,
                   left_rows, center_rows, right_rows, merge_saved>>

NextDiff ==
    \/ \E ctx \in Contexts : DiffLines(ctx)
    \/ FoldAgain
    \/ \E k \in 0..MaxContext : FoldContextCall(k)

SpecDiff == InitDiff /\ [][NextDiff]_vars

(* --------------------------- three-way merge -------------------------- *)

MergeChunk(tag, b, l, r, res) ==
    [tag |-> tag, base_lines |-> b, left_lines |-> l, right_lines |-> r,
     result_lines |-> res]

\* left_changed / right_changed: base line i lies inside a non-equal opcode
Changed(ops, i) ==
    \E n \in 1..Len(ops) : ops[n].tag # "equal" /\ ops[n].i1 <= i /\ i < ops[n].i2

\* the loop of _find_replacement over the opcodes; covered is the set of keys
\* (i1, i2) already spliced in
RECURSIVE ReplacementLoop(_, _, _, _, _, _)
ReplacementLoop(ops, n, start, end, target, covered) ==
    IF n > Len(ops) THEN <<>>
    ELSE LET o == ops[n] IN
         IF o.i2 <= start \/ o.i1 >= end
         THEN ReplacementLoop(ops, n + 1, start, end, target, covered)
         ELSE IF o.tag = "equal"
         THEN LET ov_start == Max(o.i1, start)
                  ov_end == Min(o.i2, end)
                  offset == ov_start - o.i1
              IN  [k \in 1..(ov_end - ov_start) |-> target[o.j1 + offset + k]]
                  \o ReplacementLoop(ops, n + 1, start, end, target, covered)
         ELSE IF <<o.i1, o.i2>> \notin covered
         THEN Slice(target, o.j1, o.j2)
              \o ReplacementLoop(ops, n + 1, start, end, target,
                                 covered \cup {<<o.i1, o.i2>>})
         ELSE ReplacementLoop(ops, n + 1, start, end, target, covered)

\* _find_replacement(change_map, start, end, changed_flags, base, target, sm)
FindReplacement(ops, start, end, base, target) ==
    IF ~ \E k \in start..(end - 1) : Changed(ops, k)
    THEN Slice(base, start, end)
    ELSE ReplacementLoop(ops, 1, start, end, target, {})

\* a mutation of ResolveRegion: the test "r_repl == b" is missing
ResolveRegionNoRightTest(b, l_repl, r_repl) ==
    IF l_repl = r_repl THEN MergeChunk("RESOLVED", b, l_repl, r_repl, l_repl)
    ELSE IF l_repl = b THEN MergeChunk("RESOLVED", b, l_repl, r_repl, r_repl)
    ELSE MergeChunk("CONFLICT", b, l_repl, r_repl, <<>>)

\* a mutation of ResolveRegion: diverging edits are settled for the left side
ResolveRegionLeftWins(b, l_repl, r_repl) ==
    IF l_repl = r_repl THEN MergeChunk("RESOLVED", b, l_repl, r_repl, l_repl)
    ELSE IF l_repl = b THEN MergeChunk("RESOLVED", b, l_repl, r_repl, r_repl)
    ELSE MergeChunk("RESOLVED", b, l_repl, r_repl, l_repl)

\* a mutation of ResolveRegion: a region only the right side changed keeps
\* the base lines
ResolveRegionKeepsBase(b, l_repl, r_repl) ==
    IF l_repl = r_repl THEN MergeChunk("RESOLVED", b, l_repl, r_repl, l_repl)
    ELSE IF l_repl = b THEN MergeChunk("RESOLVED", b, l_repl, r_repl, l_repl)
    ELSE IF r_repl = b THEN MergeChunk("RESOLVED", b, l_repl, r_repl, l_repl)
    ELSE MergeChunk("CONFLICT", b, l_repl, r_repl, <<>>)

\* a mutation of ResolveRegion: a Conflict chunk is pre-filled with the left
\* lines
ResolveRegionConflictKeepsLeft(b, l_repl, r_repl) ==
    IF l_repl = r_repl THEN MergeChunk("RESOLVED", b, l_repl, r_repl, l_repl)
    ELSE IF l_repl = b THEN MergeChunk("RESOLVED", b, l_repl, r_repl, r_repl)
    ELSE IF r_repl = b THEN MergeChunk("RESOLVED", b, l_repl, r_repl, l_repl)
    ELSE MergeChunk("CONFLICT", b, l_repl, r_repl, l_repl)

\* the if / elif chain that tags one changed region
ResolveRegion(b, l_repl, r_repl) ==
    IF l_repl = r_repl THEN MergeChunk("RESOLVED", b, l_repl, r_repl, l_repl)
    ELSE IF l_repl = b THEN MergeChunk("RESOLVED", b, l_repl, r_repl, r_repl)
    ELSE IF r_repl = b THEN MergeChunk("RESOLVED", b, l_repl, r_repl, l_repl)
    ELSE MergeChunk("CONFLICT", b, l_repl, r_repl, <<>>)

\* a mutation of EqualChunk: the run is passed through without its last line
EqualChunkShort(base, eq_start, i) ==
    MergeChunk("RESOLVED", Slice(base, eq_start, i), Slice(base, eq_start, i),
               Slice(base, eq_start, i), Slice(base, eq_start, i - 1))

\* the chunk of a run of base lines neither side changed
EqualChunk(base, eq_start, i) ==
    MergeChunk("RESOLVED", Slice(base, eq_start, i), Slice(base, eq_start, i),
               Slice(base, eq_start, i), Slice(base, eq_start, i))

\* a mutation of RunEnd: the inner while loop does not advance i
RunEndStuck(left_ops, right_ops, n_base, i, inChange) == i

\* the inner while loops: the first index >= i where the run ends; inChange
\* tells which of the two runs is being walked
RECURSIVE RunEnd(_, _, _, _, _)
RunEnd(left_ops, right_ops, n_base, i, inChange) ==
    IF i < n_base
       /\ ((Changed(left_ops, i) \/ Changed(right_ops, i)) <=> inChange)
    THEN RunEnd(left_ops, right_ops, n_base, i + 1, inChange)
    ELSE i

\* the outer while loop over the base lines, from base line i
RECURSIVE BaseWalk(_, _, _, _, _, _)
BaseWalk(base, left, right, left_ops, right_ops, i) ==
    IF i >= Len(base) THEN <<>>
    ELSE LET ch == Changed(left_ops, i) \/ Changed(right_ops, i)
             e == RunEnd(left_ops, right_ops, Len(base), i, ch)
         IN  <<IF ch
               THEN ResolveRegion(Slice(base, i, e),
                                  FindReplacement(left_ops, i, e, base, left),
                                  FindReplacement(right_ops, i, e, base, right))
               ELSE EqualChunk(base, i, e)>>
             \o BaseWalk(base, left, right, left_ops, right_ops, e)

\* a mutation of TrailingChunks: the test "i1 >= n_base" is missing
RECURSIVE TrailingChunksAnyInsert(_, _, _, _, _)
TrailingChunksAnyInsert(ops, n, n_base, target, side) ==
    IF n > Len(ops) THEN <<>>
    ELSE LET o == ops[n]
             repl == Slice(target, o.j1, o.j2)
         IN  (IF o.tag # "equal" /\ repl # <<>>
              THEN <<IF side = "left"
                     THEN MergeChunk("RESOLVED", <<>>, repl, <<>>, repl)
                     ELSE MergeChunk("RESOLVED", <<>>, <<>>, repl, repl)>>
              ELSE <<>>)
             \o TrailingChunksAnyInsert(ops, n + 1, n_base, target, side)

\* the loop over left_map / right_map for the lines added past the end of
\* base; side tells whose map it is
RECURSIVE TrailingChunks(_, _, _, _, _)
TrailingChunks(ops, n, n_base, target, side) ==
    IF n > Len(ops) THEN <<>>
    ELSE LET o == ops[n]
             repl == Slice(target, o.j1, o.j2)
         IN  (IF o.tag # "equal" /\ o.i1 >= n_base /\ repl # <<>>
              THEN <<IF side = "left"
                     THEN MergeChunk("RESOLVED", <<>>, repl, <<>>, repl)
                     ELSE MergeChunk("RESOLVED", <<>>, <<>>, repl, repl)>>
              ELSE <<>>)
             \o TrailingChunks(ops, n + 1, n_base, target, side)

\* a mutation of Merge3: the chunks of the lines added past the end of base
\* are emitted before the walk over base
Merge3TrailingFirst(base, left, right) ==
    LET left_ops == GetOpcodes(base, left)
        right_ops == GetOpcodes(base, right)
    IN  TrailingChunks(left_ops, 1, Len(base), left, "left")
        \o TrailingChunks(right_ops, 1, Len(base), right, "right")
        \o BaseWalk(base, left, right, left_ops, right_ops, 0)

\* merge3(base_lines, left_lines, right_lines)
Merge3(base, left, right) ==
    LET left_ops == GetOpcodes(base, left)
        right_ops == GetOpcodes(base, right)
    IN  BaseWalk(base, left, right, left_ops, right_ops, 0)
        \o TrailingChunks(left_ops, 1, Len(base), left, "left")
        \o TrailingChunks(right_ops, 1, Len(base), right, "right")

(* ------------------------------ merge view ---------------------------- *)

\* the text _render appends to the first centre row of an unresolved conflict
Placeholder == <<"<<<< CONFLICT - resolve manually >>>>">>

\* the rows _render writes for one chunk into the pane of side
\* ("left", "center" or "right"); a row past the end of the side's lines is empty
ChunkRows(c, side) ==
    LET lines == IF side = "left" THEN c.left_lines
                 ELSE IF side = "right" THEN c.right_lines
                 ELSE c.result_lines
        max_lines == Max(Max(Len(c.left_lines), Len(c.result_lines)),
                         Max(Len(c.right_lines), 1))
    IN  [k \in 1..max_lines |->
            (IF k <= Len(lines) THEN lines[k] ELSE <<>>)
            \o (IF side = "center" /\ c.tag = "CONFLICT" /\ k = 1
                   /\ c.result_lines = <<>>
                THEN Placeholder ELSE <<>>)]

\* _render: the rows of one pane, chunk after chunk
RECURSIVE RenderFrom(_, _, _)
RenderFrom(chs, n, side) ==
    IF n > Len(chs) THEN <<>>
    ELSE ChunkRows(chs[n], side) \o RenderFrom(chs, n + 1, side)

Render(chs, side) == RenderFrom(chs, 1, side)

\* a mutation of FirstConflict: the last unresolved conflict is picked
FirstConflictLast(chs) ==
    IF \E n \in 1..Len(chs) : chs[n].tag = "CONFLICT" /\ chs[n].result_lines = <<>>
    THEN CHOOSE n \in 1..Len(chs) :
            /\ chs[n].tag = "CONFLICT" /\ chs[n].result_lines = <<>>
            /\ \A m \in (n + 1)..Len(chs) :
                 ~(chs[m].tag = "CONFLICT" /\ chs[m].result_lines = <<>>)
    ELSE 0

\* the index of the first chunk that is CONFLICT with no result_lines, 0 if none
FirstConflict(chs) ==
    IF \E n \in 1..Len(chs) : chs[n].tag = "CONFLICT" /\ chs[n].result_lines = <<>>
    THEN CHOOSE n \in 1..Len(chs) :
            /\ chs[n].tag = "CONFLICT" /\ chs[n].result_lines = <<>>
            /\ \A m \in 1..(n - 1) :
                 ~(chs[m].tag = "CONFLICT" /\ chs[m].result_lines = <<>>)
    ELSE 0

\* the lines the merge runs draw their texts from: "a", "b"
MergeLineSet == {<<"a">>, <<"b">>}

\* the two merges the documentation works through, and the first of them
\* with the left edit moved one line up
ScenarioAdjacent == << <<<<"a">>, <<"b">>, <<"c">>>>,
                       <<<<"a">>, <<"B">>, <<"c">>>>,
                       <<<<"a">>, <<"b">>, <<"C">>>> >>

ScenarioApart == << <<<<"a">>, <<"b">>, <<"c">>>>,
                    <<<<"A">>, <<"b">>, <<"c">>>>,
                    <<<<"a">>, <<"b">>, <<"C">>>> >>

ScenarioDiverge == << <<<<"x">>>>, <<<<"y">>>>, <<<<"z">>>> >>

\* both sides rewrite base lines 1 and 3 differently and keep line 2
ScenarioTwoConflicts == << <<<<"a">>, <<"b">>, <<"c">>>>,
                           <<<<"A">>, <<"b">>, <<"C">>>>,
                           <<<<"x">>, <<"b">>, <<"z">>>> >>

MergeInputs ==
    (Texts(MergeLineSet, MaxMergeLen) \X Texts(MergeLineSet, MaxMergeLen)
        \X Texts(MergeLineSet, MaxMergeLen))
    \cup {ScenarioAdjacent, ScenarioApart, ScenarioDiverge, ScenarioTwoConflicts}

InitMerge ==
    /\ pc = "merge_input"
    /\ \E t \in MergeInputs :
          /\ base_lines = t[1]
          /\ left_lines = t[2]
          /\ right_lines = t[3]
    /\ context = None
    /\ raw = <<>>
    /\ result = <<>>
    /\ fold_in = <<>>
    /\ chunks = <<>>
    /\ left_rows = <<>>
    /\ center_rows = <<>>
    /\ right_rows = <<>>
    /\ merge_saved = <<>>

\* ThreeWayMergeView.load_texts: merge3, then _render
LoadTexts ==
    /\ pc = "merge_input"
    /\ chunks' = Merge3(base_lines, left_lines, right_lines)
    /\ left_rows' = Render(chunks', "left")
    /\ center_rows' = Render(chunks', "center")
    /\ right_rows' = Render(chunks', "right")
    /\ pc' = "merged"
    /\ UNCHANGED <<base_lines, left_lines, right_lines, context, raw, result, fold_in,
                   merge_saved>>

\* a mutation of UseSide: the chunk gets its result lines but keeps its tag
UseSideKeepsTag(side) ==
    /\ pc \in {"merged", "edited"}
    /\ LET n == FirstConflict(chunks) IN
       IF n = 0 THEN UNCHANGED <<chunks, left_rows, center_rows, right_rows, pc>>
       ELSE /\ chunks' = [chunks EXCEPT ![n] =
                            MergeChunk("CONFLICT", chunks[n].base_lines,
                                       chunks[n].left_lines, chunks[n].right_lines,
                                       IF side = "left" THEN chunks[n].left_lines
                                       ELSE chunks[n].right_lines)]
            /\ left_rows' = Render(chunks', "left")
            /\ center_rows' = Render(chunks', "center")
            /\ right_rows' = Render(chunks', "right")
            /\ pc' = "edited"
    /\ UNCHANGED <<base_lines, left_lines, right_lines, context, raw, result, fold_in,
                   merge_saved>>

\* _use_left_for_conflict (side "left") and _use_right_for_conflict ("right")
UseSide(side) ==
    /\ pc \in {"merged", "edited"}
    /\ LET n == FirstConflict(chunks) IN
       IF n = 0 THEN UNCHANGED <<chunks, left_rows, center_rows, right_rows, pc>>
       ELSE /\ chunks' = [chunks EXCEPT ![n] =
                            MergeChunk("RESOLVED", chunks[n].base_lines,
                                       chunks[n].left_lines, chunks[n].right_lines,
                                       IF side = "left" THEN chunks[n].left_lines
                                       ELSE chunks[n].right_lines)]
            /\ left_rows' = Render(chunks', "left")
            /\ center_rows' = Render(chunks', "center")
            /\ right_rows' = Render(chunks', "right")
            /\ pc' = "edited"
    /\ UNCHANGED <<base_lines, left_lines, right_lines, context, raw, result, fold_in,
                   merge_saved>>

UseLeft == UseSide("left")

UseRight == UseSide("right")

\* QPlainTextEdit.toPlainText: the rows (blocks) joined by newlines
RECURSIVE JoinLines(_)
JoinLines(rows) ==
    IF rows = <<>> THEN <<>>
    ELSE IF Len(rows) = 1 THEN rows[1]
    ELSE rows[1] \o <<"\n">> \o JoinLines(Tail(rows))

\* get_result_text(): the text of the centre pane
GetResultText == JoinLines(center_rows)

\* _on_save: merge_saved.emit(get_result_text()); merge_saved holds the text
\* the signal last carried, as a one-element list, and is empty before
OnSave ==
    /\ pc \in {"merged", "edited"}
    /\ merge_saved' = <<GetResultText>>
    /\ UNCHANGED <<pc, base_lines, left_lines, right_lines, context, raw, result,
                   fold_in, chunks, left_rows, center_rows, right_rows>>

NextMerge ==
    \/ LoadTexts
    \/ UseLeft
    \/ UseRight
    \/ OnSave

SpecMerge == InitMerge /\ [][NextMerge]_vars

(* ------------------- the engine: both entry points ------------------- *)

\* a run calls either diff_lines or merge3 (through load_texts)
InitEngine == InitDiff \/ InitMerge

NextEngine ==
    \/ NextDiff
    \/ NextMerge

SpecEngine == InitEngine /\ [][NextEngine]_vars

(* --------------------- folding of long record streams ----------------- *)

Digit(d) == <<"0", "1", "2", "3", "4", "5", "6", "7", "8", "9">>[d + 1]

\* the text of line i of a text whose lines are all different: "line" i in
\* decimal
RECURSIVE LineText(_)
LineText(i) == IF i < 10 THEN <<Digit(i)>> ELSE LineText(i \div 10) \o <<Digit(i % 10)>>

\* the raw stream diff_lines builds for two texts of n different lines each
\* that differ in line p + 1 alone (p = None: in no line): EQUAL records
\* everywhere but a REPLACE record at index p
StreamOf(n, p) ==
    [k \in 1..n |->
        IF k = p + 1
        THEN DiffLine("REPLACE", k, k, LineText(k), LineText(k) \o <<"x">>,
                      CharDiff(LineText(k), LineText(k) \o <<"x">>)[1],
                      CharDiff(LineText(k), LineText(k) \o <<"x">>)[2])
        ELSE DiffLine("EQUAL", k, k, LineText(k), LineText(k), <<>>, <<>>)]

StreamLens == (MaxStream - 2)..MaxStream

InitFold ==
    /\ pc = "stream"
    /\ \E n \in StreamLens : \E p \in {None} \cup (0..(n - 1)) : raw = StreamOf(n, p)
    /\ context \in 0..MaxFoldContext
    /\ fold_in = raw
    /\ result = <<>>
    /\ base_lines = <<>>
    /\ left_lines = <<>>
    /\ right_lines = <<>>
    /\ chunks = <<>>
    /\ left_rows = <<>>
    /\ center_rows = <<>>
    /\ right_rows = <<>>
    /\ merge_saved = <<>>

\* the folding stage of diff_lines on the raw stream
FoldStream ==
    /\ pc = "stream"
    /\ result' = Fold(raw, context)
    /\ pc' = "diffed"
    /\ UNCHANGED <<base_lines, left_lines, right_lines, context, raw, fold_in,
                   chunks, left_rows, center_rows, right_rows, merge_saved>>

NextFold ==
    \/ FoldStream
    \/ FoldAgain

SpecFold == InitFold /\ [][NextFold]_vars

(* ------------------------------- claims ------------------------------- *)

\* the records of stream d with tag t
RECURSIVE WithTag(_, _)
WithTag(d, t) ==
    IF d = <<>> THEN <<>>
    ELSE (IF Head(d).tag = t THEN <<Head(d)>> ELSE <<>>) \o WithTag(Tail(d), t)

HasTag(d, t) == \E n \in 1..Len(d) : d[n].tag = t

\* text A after the Delete and Replace records of d: line left_lineno is
\* dropped (Delete) or becomes right_text (Replace)
RECURSIVE KeptLines(_, _, _)
KeptLines(A, d, i) ==
    IF i > Len(A) THEN <<>>
    ELSE (IF \E n \in 1..Len(d) : d[n].tag = "DELETE" /\ d[n].left_lineno = i
          THEN <<>>
          ELSE IF \E n \in 1..Len(d) : d[n].tag = "REPLACE" /\ d[n].left_lineno = i
          THEN <<(CHOOSE r \in {d[n] : n \in 1..Len(d)} :
                     r.tag = "REPLACE" /\ r.left_lineno = i).right_text>>
          ELSE <<A[i]>>)
         \o KeptLines(A, d, i + 1)

\* the Insert records of d put at their right_lineno among the kept lines
RECURSIVE PlaceInserts(_, _, _, _)
PlaceInserts(kept, d, pos, total) ==
    IF pos > total THEN <<>>
    ELSE IF \E n \in 1..Len(d) : d[n].tag = "INSERT" /\ d[n].right_lineno = pos
    THEN <<(CHOOSE r \in {d[n] : n \in 1..Len(d)} :
               r.tag = "INSERT" /\ r.right_lineno = pos).right_text>>
         \o PlaceInserts(kept, d, pos + 1, total)
    ELSE IF kept = <<>> THEN <<>>
    ELSE <<Head(kept)>> \o PlaceInserts(Tail(kept), d, pos + 1, total)

ApplyEdits(A, d) ==
    LET kept == KeptLines(A, d, 1)
    IN  PlaceInserts(kept, d, 1, Len(kept) + Len(WithTag(d, "INSERT")))

\* C1: applying the Delete / Insert / Replace records of
\* diff_lines(A, B, context) to A gives B, for every context (None or k >= 0)
C1_RoundTrip ==
    pc = "diffed" => ApplyEdits(left_lines, result) = right_lines

\* a folded diff that carries a Replace, an Insert and a Hunk record
C1_Witness ==
    /\ pc = "diffed"
    /\ context # None
    /\ HasTag(result, "REPLACE")
    /\ HasTag(result, "INSERT")
    /\ HasTag(result, "HUNK")
    /\ ApplyEdits(left_lines, result) = right_lines

\* the result_lines (f = "result"), base_lines, ... of the chunks, in order
RECURSIVE ConcatField(_, _)
ConcatField(chs, f) ==
    IF chs = <<>> THEN <<>>
    ELSE (IF f = "result" THEN Head(chs).result_lines
          ELSE IF f = "base" THEN Head(chs).base_lines
          ELSE IF f = "left" THEN Head(chs).left_lines
          ELSE Head(chs).right_lines)
         \o ConcatField(Tail(chs), f)

NoConflict(chs) == \A n \in 1..Len(chs) : chs[n].tag = "RESOLVED"

\* C2: merge3(B, L, B) has no Conflict chunk and its result_lines concatenate
\* to L; merge3(B, B, R) likewise concatenates to R
C2_OneSidedChange ==
    pc = "merged" =>
        /\ right_lines = base_lines =>
              NoConflict(chunks) /\ ConcatField(chunks, "result") = left_lines
        /\ left_lines = base_lines =>
              NoConflict(chunks) /\ ConcatField(chunks, "result") = right_lines

\* C3: merge3(X, X, X) has only Resolved chunks, their result_lines
\* concatenate to X, and there is no chunk when X is empty
C3_MergeIdentity ==
    (pc = "merged" /\ left_lines = base_lines /\ right_lines = base_lines) =>
        /\ NoConflict(chunks)
        /\ ConcatField(chunks, "result") = base_lines
        /\ (base_lines = <<>> => chunks = <<>>)

\* three equal texts of two lines or more, merged
C3_Witness ==
    /\ pc = "merged"
    /\ left_lines = base_lines
    /\ right_lines = base_lines
    /\ Len(base_lines) >= 2
    /\ Len(chunks) = 1

\* C4: merge3(B, X, X) has only Resolved chunks and their result_lines
\* concatenate to X, each line of X once
C4_IdenticalEdits ==
    (pc = "merged" /\ left_lines = right_lines) =>
        /\ NoConflict(chunks)
        /\ ConcatField(chunks, "result") = left_lines

\* C5: a Conflict chunk has left_lines # base_lines, right_lines # base_lines
\* and left_lines # right_lines
C5_ConflictMinimality ==
    pc = "merged" =>
        \A n \in 1..Len(chunks) :
            chunks[n].tag = "CONFLICT" =>
                /\ chunks[n].left_lines # chunks[n].base_lines
                /\ chunks[n].right_lines # chunks[n].base_lines
                /\ chunks[n].left_lines # chunks[n].right_lines

\* a merge with a Conflict chunk next to a region only one side changed
C5_Witness ==
    /\ pc = "merged"
    /\ \E n \in 1..Len(chunks) : chunks[n].tag = "CONFLICT"
    /\ \E n \in 1..Len(chunks) :
          /\ chunks[n].tag = "RESOLVED"
          /\ chunks[n].right_lines = chunks[n].base_lines
          /\ chunks[n].left_lines # chunks[n].base_lines

\* C6 as stated: merge3(abc, aBc, abC) has no Conflict chunk, base line 2
\* resolves to "B" and base line 3 to "C" in two Resolved chunks
C6_AdjacentEditsMerge ==
    (pc = "merged" /\ <<base_lines, left_lines, right_lines>> = ScenarioAdjacent) =>
        /\ NoConflict(chunks)
        /\ \E n \in 1..Len(chunks) :
              chunks[n].base_lines = <<<<"b">>>> /\ chunks[n].result_lines = <<<<"B">>>>
        /\ \E n \in 1..Len(chunks) :
              chunks[n].base_lines = <<<<"c">>>> /\ chunks[n].result_lines = <<<<"C">>>>

\* C6 amended: the edits to the adjacent base lines 2 and 3 fall into one
\* changed region, which is a Conflict chunk; with the left edit on line 1
\* instead, an unchanged line lies between the edits and both are resolved
C6_AdjacentEditsConflict ==
    /\ (pc = "merged" /\ <<base_lines, left_lines, right_lines>> = ScenarioAdjacent) =>
          chunks = << MergeChunk("RESOLVED", <<<<"a">>>>, <<<<"a">>>>, <<<<"a">>>>,
                                 <<<<"a">>>>),
                      MergeChunk("CONFLICT", <<<<"b">>, <<"c">>>>, <<<<"B">>, <<"c">>>>,
                                 <<<<"b">>, <<"C">>>>, <<>>) >>
    /\ (pc = "merged" /\ <<base_lines, left_lines, right_lines>> = ScenarioApart) =>
          /\ NoConflict(chunks)
          /\ Len(chunks) = 3
          /\ chunks[1].base_lines = <<<<"a">>>> /\ chunks[1].result_lines = <<<<"A">>>>
          /\ chunks[2].result_lines = <<<<"b">>>>
          /\ chunks[3].base_lines = <<<<"c">>>> /\ chunks[3].result_lines = <<<<"C">>>>

\* the documented merge of abc with aBc and abC has run
C6_Witness ==
    /\ pc = "merged"
    /\ <<base_lines, left_lines, right_lines>> = ScenarioAdjacent
    /\ Len(chunks) = 2

\* C7: the base_lines of the chunks concatenate to the base text, and every
\* chunk with empty base_lines (a trailing insertion) comes after every chunk
\* with non-empty base_lines
C7_BasePartition ==
    pc = "merged" =>
        /\ ConcatField(chunks, "base") = base_lines
        /\ \A m, n \in 1..Len(chunks) :
              (m < n /\ chunks[m].base_lines = <<>>) => chunks[n].base_lines = <<>>
        /\ \A n \in 1..Len(chunks) :
              chunks[n].base_lines = <<>> =>
                  /\ chunks[n].tag = "RESOLVED"
                  /\ chunks[n].result_lines # <<>>
                  /\ \/ chunks[n].left_lines = <<>>
                     \/ chunks[n].right_lines = <<>>

\* a merge with a changed region, an unchanged run and a trailing insertion
C7_Witness ==
    /\ pc = "merged"
    /\ Len(chunks) >= 3
    /\ chunks[Len(chunks)].base_lines = <<>>
    /\ \E n \in 1..Len(chunks) : chunks[n].left_lines # chunks[n].base_lines
                                 /\ chunks[n].base_lines # <<>>
    /\ ConcatField(chunks, "base") = base_lines

\* C8: folding the folded stream of the Line Differ again with the same k
\* returns the same stream
C8_FoldIdempotent ==
    (pc = "refolded" /\ fold_in = DiffLinesOf(left_lines, right_lines, context)) =>
        result = fold_in

NoAdjacentHunks(d) ==
    \A n \in 1..(Len(d) - 1) : ~(d[n].tag = "HUNK" /\ d[n + 1].tag = "HUNK")

\* C9: no two Hunk markers are adjacent in the output of the folding stage,
\* whether it was given a raw stream or a previous fold output
C9_NoAdjacentHunks ==
    (pc \in {"diffed", "refolded"} /\ context # None) => NoAdjacentHunks(result)

\* C10: a 100-record stream whose only non-Equal record is at index 50,
\* folded with context 3, has the records 47..53 in a row, exactly one Hunk
\* marker before them, exactly one after them, and no two adjacent markers
C10_HunkBeforeAndAfter ==
    (pc = "diffed" /\ Len(raw) = 100 /\ InterestingIndices(raw) = <<50>>
        /\ context = 3 /\ fold_in = raw) =>
        /\ NoAdjacentHunks(result)
        /\ \E w \in 1..Len(result) :
              /\ w + 6 <= Len(result)
              /\ SubSeq(result, w, w + 6) = SubSeq(raw, 48, 54)
              /\ Len(WithTag(SubSeq(result, 1, w - 1), "HUNK")) = 1
              /\ Len(WithTag(SubSeq(result, w + 7, Len(result)), "HUNK")) = 1

\* spans sp are non-empty intervals that cover [0, n) in increasing order
\* with no gap and no overlap, and carry only the tags of set tags
SpansPartition(sp, n, tags) ==
    /\ \A i \in 1..Len(sp) : sp[i].start < sp[i].end /\ sp[i].tag \in tags
    /\ \A i \in 1..(Len(sp) - 1) : sp[i].end = sp[i + 1].start
    /\ IF sp = <<>> THEN n = 0 ELSE sp[1].start = 0 /\ sp[Len(sp)].end = n

\* C11: in every Replace record of diff_lines(A, B, context) the left spans
\* partition [0, len(left_text)) with the tags equal / delete and the right
\* spans partition [0, len(right_text)) with the tags equal / insert
C11_SpanPartition ==
    pc = "diffed" =>
        \A n \in 1..Len(result) :
            result[n].tag = "REPLACE" =>
                /\ SpansPartition(result[n].left_char_spans,
                                  Len(result[n].left_text), {"equal", "delete"})
                /\ SpansPartition(result[n].right_char_spans,
                                  Len(result[n].right_text), {"equal", "insert"})

\* a Replace record whose old line has an equal and a deleted part and whose
\* new line is the equal part alone
C11_Witness ==
    /\ pc = "diffed"
    /\ \E n \in 1..Len(result) :
          /\ result[n].tag = "REPLACE"
          /\ Len(result[n].left_char_spans) = 2
          /\ Len(result[n].right_char_spans) = 1
          /\ result[n].left_char_spans[2].tag = "delete"

\* the values of field left_lineno (side "left") or right_lineno of the
\* records of d that have one, in stream order
RECURSIVE LineNos(_, _)
LineNos(d, side) ==
    IF d = <<>> THEN <<>>
    ELSE LET v == IF side = "left" THEN Head(d).left_lineno ELSE Head(d).right_lineno
         IN  (IF v # None THEN <<v>> ELSE <<>>) \o LineNos(Tail(d), side)

\* C12: in the raw stream the left_lineno values present are 1..len(A) in
\* increasing order with left_text = A[left_lineno - 1], and the
\* right_lineno values present are 1..len(B) with right_text = B[right_lineno - 1]
C12_LineNumberPartition ==
    (pc = "diffed" /\ context = None) =>
        /\ LineNos(result, "left") = [k \in 1..Len(left_lines) |-> k]
        /\ LineNos(result, "right") = [k \in 1..Len(right_lines) |-> k]
        /\ \A n \in 1..Len(result) :
              /\ result[n].left_lineno # None =>
                    result[n].left_text = left_lines[result[n].left_lineno]
              /\ result[n].right_lineno # None =>
                    result[n].right_text = right_lines[result[n].right_lineno]

\* a raw stream with an Equal, a Replace, and an Insert record
C12_Witness ==
    /\ pc = "diffed"
    /\ context = None
    /\ HasTag(result, "EQUAL")
    /\ HasTag(result, "REPLACE")
    /\ HasTag(result, "INSERT")
    /\ Len(right_lines) = Len(left_lines) + 1

\* the length of a longest common subsequence of a[1..i] and b[1..j]
RECURSIVE LCSLen(_, _, _, _)
LCSLen(a, b, i, j) ==
    IF i = 0 \/ j = 0 THEN 0
    ELSE IF a[i] = b[j] THEN 1 + LCSLen(a, b, i - 1, j - 1)
    ELSE Max(LCSLen(a, b, i - 1, j), LCSLen(a, b, i, j - 1))

\* the length of a longest block of consecutive lines a and b have in common
LongestBlockLen(a, b) ==
    LET ks == {k \in 0..Min(Len(a), Len(b)) :
                 \E i \in 1..(Len(a) - k + 1) : \E j \in 1..(Len(b) - k + 1) :
                     SubSeq(a, i, i + k - 1) = SubSeq(b, j, j + k - 1)}
    IN  CHOOSE k \in ks : \A m \in ks : m <= k

\* the Equal records of d pair equal lines of A and B, in increasing order on
\* both sides
EqualsAreCommonSubsequence(A, B, d) ==
    LET eq == WithTag(d, "EQUAL") IN
    /\ \A n \in 1..Len(eq) : A[eq[n].left_lineno] = B[eq[n].right_lineno]
    /\ \A n \in 1..(Len(eq) - 1) :
          /\ eq[n].left_lineno < eq[n + 1].left_lineno
          /\ eq[n].right_lineno < eq[n + 1].right_lineno

\* C13 as stated: the number of Equal records of diff_lines(A, B, None) is
\* the length of a longest common subsequence of A and B
C13_EqualsAreLCS ==
    (pc = "diffed" /\ context = None) =>
        Len(WithTag(result, "EQUAL")) = LCSLen(left_lines, right_lines,
                                               Len(left_lines), Len(right_lines))

\* C13 amended: the Equal records form a common subsequence of A and B that
\* is at least as long as the longest common block of consecutive lines and
\* at most as long as a longest common subsequence
C13_EqualsAreCommonSubsequence ==
    (pc = "diffed" /\ context = None) =>
        /\ EqualsAreCommonSubsequence(left_lines, right_lines, result)
        /\ Len(WithTag(result, "EQUAL")) >= LongestBlockLen(left_lines, right_lines)
        /\ Len(WithTag(result, "EQUAL")) <= LCSLen(left_lines, right_lines,
                                                    Len(left_lines), Len(right_lines))

\* a raw stream with fewer Equal records than a longest common subsequence has
C13_Witness ==
    /\ pc = "diffed"
    /\ context = None
    /\ Len(WithTag(result, "EQUAL")) >= 1
    /\ Len(WithTag(result, "EQUAL")) < LCSLen(left_lines, right_lines,
                                              Len(left_lines), Len(right_lines))

\* the opcodes ops tile [0, la) and [0, lb) in order with ranges inside the
\* two texts, and an equal opcode spans as many lines of b as of a, so every
\* index the loops over the opcodes compute lies inside its list
OpcodesInRange(ops, la, lb) ==
    /\ \A n \in 1..Len(ops) :
          /\ 0 <= ops[n].i1 /\ ops[n].i1 <= ops[n].i2 /\ ops[n].i2 <= la
          /\ 0 <= ops[n].j1 /\ ops[n].j1 <= ops[n].j2 /\ ops[n].j2 <= lb
          /\ ops[n].tag \in {"equal", "replace", "delete", "insert"}
          /\ ops[n].tag = "equal" => ops[n].i2 - ops[n].i1 = ops[n].j2 - ops[n].j1
    /\ \A n \in 1..(Len(ops) - 1) :
          ops[n].i2 = ops[n + 1].i1 /\ ops[n].j2 = ops[n + 1].j1
    /\ IF ops = <<>> THEN la = 0 /\ lb = 0
       ELSE /\ ops[1].i1 = 0 /\ ops[1].j1 = 0
            /\ ops[Len(ops)].i2 = la /\ ops[Len(ops)].j2 = lb

\* d is a list of DiffLine records over the lines of A and B
IsDiffLineList(A, B, d) ==
    \A n \in 1..Len(d) :
        /\ d[n].tag \in {"EQUAL", "INSERT", "DELETE", "REPLACE", "HUNK"}
        /\ d[n].left_lineno \in {None} \cup (1..Len(A))
        /\ d[n].right_lineno \in {None} \cup (1..Len(B))

\* chs is a list of MergeChunk records
IsMergeChunkList(chs) ==
    \A n \in 1..Len(chs) : chs[n].tag \in {"RESOLVED", "CONFLICT"}

\* C14: diff_lines (any two texts, context None or k >= 0) and merge3 (any
\* three texts), empty texts included, index their lists in range only and
\* advance every while loop (stated on the call state), and return a list
\* of records (stated on the state after the call)
C14_Totality ==
    /\ pc = "input" =>
          OpcodesInRange(GetOpcodes(left_lines, right_lines),
                         Len(left_lines), Len(right_lines))
    /\ pc = "merge_input" =>
          LET left_ops == GetOpcodes(base_lines, left_lines)
              right_ops == GetOpcodes(base_lines, right_lines)
              n_base == Len(base_lines)
          IN  /\ OpcodesInRange(left_ops, n_base, Len(left_lines))
              /\ OpcodesInRange(right_ops, n_base, Len(right_lines))
              /\ \A i \in 0..(n_base - 1) :
                    RunEnd(left_ops, right_ops, n_base, i,
                           Changed(left_ops, i) \/ Changed(right_ops, i))
                        \in (i + 1)..n_base
    /\ pc \in {"diffed", "refolded"} => IsDiffLineList(left_lines, right_lines, result)
    /\ pc \in {"merged", "edited"} => IsMergeChunkList(chunks)

\* merge3 has returned for an empty base and an empty right text
C14_Witness ==
    /\ pc = "merged"
    /\ base_lines = <<>>
    /\ left_lines # <<>>
    /\ right_lines = <<>>
    /\ Len(chunks) = 1

\* the step resolved the first unresolved Conflict chunk with the lines of
\* side and left everything else of the chunk list as it was
Accepted(side) ==
    LET n == FirstConflict(chunks) IN
    /\ Len(chunks') = Len(chunks)
    /\ chunks'[n].tag = "RESOLVED"
    /\ chunks'[n].result_lines = (IF side = "left" THEN chunks[n].left_lines
                                  ELSE chunks[n].right_lines)
    /\ chunks'[n].base_lines = chunks[n].base_lines
    /\ chunks'[n].left_lines = chunks[n].left_lines
    /\ chunks'[n].right_lines = chunks[n].right_lines
    /\ \A m \in 1..Len(chunks) : m # n => chunks'[m] = chunks[m]

\* C15: accepting the left (right) side of a Conflict chunk makes the chunk
\* Resolved with result_lines equal to its left_lines (right_lines) and
\* leaves its base_lines, left_lines and right_lines unchanged, also when
\* the accepted side is empty
C15_AcceptSide ==
    [][/\ (UseLeft /\ FirstConflict(chunks) # 0) => Accepted("left")
       /\ (UseRight /\ FirstConflict(chunks) # 0) => Accepted("right")]_vars

\* a Conflict chunk whose empty left side was accepted
C15_Witness ==
    /\ pc = "edited"
    /\ \E n \in 1..Len(chunks) :
          /\ chunks[n].tag = "RESOLVED"
          /\ chunks[n].base_lines # <<>>
          /\ chunks[n].left_lines = <<>>
          /\ chunks[n].right_lines \notin {<<>>, chunks[n].base_lines}
          /\ chunks[n].result_lines = <<>>

\* the chunk the priority rule asks for, given b, l and r
ByPriority(b, l, r) ==
    IF l = r THEN MergeChunk("RESOLVED", b, l, r, l)
    ELSE IF l = b THEN MergeChunk("RESOLVED", b, l, r, r)
    ELSE IF r = b THEN MergeChunk("RESOLVED", b, l, r, l)
    ELSE MergeChunk("CONFLICT", b, l, r, <<>>)

\* C16: every chunk of merge3 with base region b and side replacements l, r
\* is Resolved with l if l = r, else Resolved with r if l = b, else Resolved
\* with l if r = b, else Conflict with no result lines; merge3(x, y, z) is
\* one Conflict chunk with left y, right z
C16_ResolutionPriority ==
    pc = "merged" =>
        /\ \A n \in 1..Len(chunks) :
              chunks[n] = ByPriority(chunks[n].base_lines, chunks[n].left_lines,
                                     chunks[n].right_lines)
        /\ <<base_lines, left_lines, right_lines>> = ScenarioDiverge =>
              chunks = <<MergeChunk("CONFLICT", <<<<"x">>>>, <<<<"y">>>>,
                                    <<<<"z">>>>, <<>>)>>

\* the merge of x / y / z has returned its one Conflict chunk
C16_Witness ==
    /\ pc = "merged"
    /\ <<base_lines, left_lines, right_lines>> = ScenarioDiverge
    /\ Len(chunks) = 1
    /\ chunks[1].tag = "CONFLICT"

\* the lines of target a side inserts past the end of base: those of the
\* non-equal opcode that starts at n_base, if there is one
TrailingInsertion(ops, n_base, target) ==
    IF \E n \in 1..Len(ops) : ops[n].tag # "equal" /\ ops[n].i1 = n_base
    THEN LET n == CHOOSE n \in 1..Len(ops) :
                      ops[n].tag # "equal" /\ ops[n].i1 = n_base
         IN  Slice(target, ops[n].j1, ops[n].j2)
    ELSE <<>>

\* the chunks C17 expects after the base-covering chunks
ExpectedTrailing(base, left, right) ==
    LET tl == TrailingInsertion(GetOpcodes(base, left), Len(base), left)
        tr == TrailingInsertion(GetOpcodes(base, right), Len(base), right)
    IN  (IF tl # <<>> THEN <<MergeChunk("RESOLVED", <<>>, tl, <<>>, tl)>> ELSE <<>>)
        \o (IF tr # <<>> THEN <<MergeChunk("RESOLVED", <<>>, <<>>, tr, tr)>> ELSE <<>>)

\* C17: the lines a side appends past the end of base form one Resolved
\* chunk with empty base_lines after all base-covering chunks, left's chunk
\* before right's, and a side without trailing insertion has no such chunk
C17_TrailingInsertions ==
    pc = "merged" =>
        LET et == ExpectedTrailing(base_lines, left_lines, right_lines)
            nb == Len(chunks) - Len(et)
        IN  /\ nb >= 0
            /\ \A n \in 1..nb : chunks[n].base_lines # <<>>
            /\ SubSeq(chunks, nb + 1, Len(chunks)) = et

\* both sides append lines past the end of a non-empty base
C17_Witness ==
    /\ pc = "merged"
    /\ base_lines # <<>>
    /\ Len(chunks) >= 3
    /\ chunks[Len(chunks) - 1].base_lines = <<>>
    /\ chunks[Len(chunks) - 1].right_lines = <<>>
    /\ chunks[Len(chunks)].base_lines = <<>>
    /\ chunks[Len(chunks)].left_lines = <<>>
    /\ chunks[Len(chunks) - 2].base_lines # <<>>

\* C18: the left_lines of the chunks of merge3(B, L, R) concatenate to L and
\* the right_lines to R
C18_SidePartition ==
    pc = "merged" =>
        /\ ConcatField(chunks, "left") = left_lines
        /\ ConcatField(chunks, "right") = right_lines

\* the 1-based indices of the records of rw that occur in d
KeptIndices(rw, d) ==
    {i \in 1..Len(rw) : \E n \in 1..Len(d) : d[n] = rw[i]}

\* rw with every maximal run of records outside K replaced by one Hunk
\* marker, from index i on
RECURSIVE MarkElided(_, _, _)
MarkElided(rw, K, i) ==
    IF i > Len(rw) THEN <<>>
    ELSE (IF i \in K THEN <<rw[i]>>
          ELSE IF i = 1 \/ (i - 1) \in K THEN <<HunkLine>>
          ELSE <<>>)
         \o MarkElided(rw, K, i + 1)

\* C19: the folded stream is the raw stream with each maximal run of
\* omitted records replaced by exactly one Hunk marker, and it has no other
\* Hunk marker
C19_HunksMarkElidedRuns ==
    (pc = "diffed" /\ context # None) =>
        result = MarkElided(raw, KeptIndices(raw, result), 1)

\* C20: folding a raw stream of Equal records only with context k gives the
\* first k records, one Hunk marker and the last k records if len(raw) > 2k
\* (a single Hunk marker when k = 0), and raw itself otherwise
C20_AllEqualFolding ==
    (pc = "diffed" /\ context # None /\ ~ \E n \in 1..Len(raw) : raw[n].tag # "EQUAL") =>
        result = (IF Len(raw) > 2 * context
                  THEN SubSeq(raw, 1, context) \o <<HunkLine>>
                       \o SubSeq(raw, Len(raw) - context + 1, Len(raw))
                  ELSE raw)

\* d without its Hunk markers
RECURSIVE WithoutHunks(_)
WithoutHunks(d) ==
    IF d = <<>> THEN <<>>
    ELSE (IF Head(d).tag # "HUNK" THEN <<Head(d)>> ELSE <<>>) \o WithoutHunks(Tail(d))

\* the records of rw at the indices of K, in order, from index i on
RECURSIVE Restrict(_, _, _)
Restrict(rw, K, i) ==
    IF i > Len(rw) THEN <<>>
    ELSE (IF i \in K THEN <<rw[i]>> ELSE <<>>) \o Restrict(rw, K, i + 1)

\* C21: the fold output without its Hunk markers is a subsequence of raw
\* with every raw record at most once, in raw order, and every non-Equal raw
\* record is in it; only Equal records are omitted
C21_FoldKeepsChanges ==
    (pc = "diffed" /\ context # None) =>
        /\ WithoutHunks(result) = Restrict(raw, KeptIndices(raw, result), 1)
        /\ \A i \in 1..Len(raw) :
              raw[i].tag # "EQUAL" => i \in KeptIndices(raw, result)

\* a fold that omitted Equal records around a change
C21_Witness ==
    /\ pc = "diffed"
    /\ context # None
    /\ HasTag(result, "HUNK")
    /\ \E i \in 1..Len(raw) : raw[i].tag # "EQUAL"
    /\ Len(WithoutHunks(result)) < Len(raw)

\* the fields of a record other than its character spans
Core(r) == <<r.tag, r.left_lineno, r.right_lineno, r.left_text, r.right_text>>

\* what C22 expects for a replace opcode o: the positional pairs, then the
\* excess old lines, then the excess new lines
ExpectedPairing(A, B, o) ==
    LET n_old == o.i2 - o.i1
        n_new == o.j2 - o.j1
        nc == Min(n_old, n_new)
    IN  [k \in 1..nc |-> <<"REPLACE", o.i1 + k, o.j1 + k, A[o.i1 + k], B[o.j1 + k]>>]
        \o [k \in 1..(n_old - nc) |->
               <<"DELETE", o.i1 + nc + k, None, A[o.i1 + nc + k], <<>> >>]
        \o [k \in 1..(n_new - nc) |->
               <<"INSERT", None, o.j1 + nc + k, <<>>, B[o.j1 + nc + k]>>]

\* the positions of the records of d that carry a line of opcode o
OpcodePositions(d, o) ==
    {n \in 1..Len(d) : \/ d[n].left_lineno \in (o.i1 + 1)..o.i2
                       \/ d[n].right_lineno \in (o.j1 + 1)..o.j2}

\* C22: for a Replace opcode over old lines [i1, i2) and new lines [j1, j2)
\* the raw stream has, consecutively and in this order, min(n_old, n_new)
\* Replace records pairing old line i1+k with new line j1+k, the excess old
\* lines as Delete records, the excess new lines as Insert records; the two
\* excess groups are never both non-empty
C22_PositionalPairing ==
    (pc = "diffed" /\ context = None) =>
        LET ops == GetOpcodes(left_lines, right_lines) IN
        \A m \in 1..Len(ops) :
            ops[m].tag = "replace" =>
                LET P == OpcodePositions(result, ops[m])
                    e == ExpectedPairing(left_lines, right_lines, ops[m])
                    lo == CHOOSE n \in P : \A q \in P : n <= q
                IN  /\ P = lo..(lo + Len(e) - 1)
                    /\ \A k \in 1..Len(e) : Core(result[lo + k - 1]) = e[k]
                    /\ ~(HasTag(SubSeq(result, lo, lo + Len(e) - 1), "DELETE")
                         /\ HasTag(SubSeq(result, lo, lo + Len(e) - 1), "INSERT"))

\* a raw stream whose replace opcode has one old line and more new lines
C22_Witness ==
    /\ pc = "diffed"
    /\ context = None
    /\ \E n \in 1..(Len(result) - 1) :
          /\ result[n].tag = "REPLACE"
          /\ result[n + 1].tag = "INSERT"
    /\ \E n \in 1..Len(result) : result[n].tag = "EQUAL"

\* the 0-based start pairs (i, j) of the common blocks of length k inside
\* a[alo:ahi] and b[blo:bhi]
BlockStarts(a, b, alo, ahi, blo, bhi, k) ==
    {s \in (alo..(ahi - k)) \X (blo..(bhi - k)) :
        \A d \in 1..k : a[s[1] + d] = b[s[2] + d]}

\* m = (i, j, k) is a longest common block of the two ranges and, among the
\* longest, the one that starts earliest in a and then earliest in b
IsEarliestLongest(a, b, alo, ahi, blo, bhi, m) ==
    IF m[3] = 0 THEN BlockStarts(a, b, alo, ahi, blo, bhi, 1) = {}
    ELSE /\ <<m[1], m[2]>> \in BlockStarts(a, b, alo, ahi, blo, bhi, m[3])
         /\ BlockStarts(a, b, alo, ahi, blo, bhi, m[3] + 1) = {}
         /\ \A s \in BlockStarts(a, b, alo, ahi, blo, bhi, m[3]) :
               m[1] < s[1] \/ (m[1] = s[1] /\ m[2] <= s[2])

\* the tie-break holds in every pair of ranges the matcher is asked to match
\* for a and b: the whole sequences, then the ranges left and right of each
\* match
RECURSIVE TieBreakHolds(_, _, _, _, _, _)
TieBreakHolds(a, b, alo, ahi, blo, bhi) ==
    LET m == FindLongestMatch(a, b, alo, ahi, blo, bhi) IN
    /\ IsEarliestLongest(a, b, alo, ahi, blo, bhi, m)
    /\ (m[3] > 0 /\ alo < m[1] /\ blo < m[2]) =>
          TieBreakHolds(a, b, alo, m[1], blo, m[2])
    /\ (m[3] > 0 /\ m[1] + m[3] < ahi /\ m[2] + m[3] < bhi) =>
          TieBreakHolds(a, b, m[1] + m[3], ahi, m[2] + m[3], bhi)

\* C23: among the longest common blocks of the ranges being matched the
\* matcher picks the one starting earliest in the first sequence and then
\* earliest in the second, for the lines of a diff and for the characters
\* of two lines; diff_lines(ab, ba, None) is Insert b, Equal a, Delete b
C23_TieBreak ==
    (pc = "diffed" /\ context = None) =>
        /\ TieBreakHolds(left_lines, right_lines, 0, Len(left_lines),
                         0, Len(right_lines))
        /\ \A n \in 1..Len(left_lines) : \A m \in 1..Len(right_lines) :
              TieBreakHolds(left_lines[n], right_lines[m], 0, Len(left_lines[n]),
                            0, Len(right_lines[m]))
        /\ (left_lines = <<<<"a">>, <<"b">>>> /\ right_lines = <<<<"b">>, <<"a">>>>) =>
              [n \in 1..Len(result) |-> Core(result[n])]
                  = << <<"INSERT", None, 1, <<>>, <<"b">>>>,
                       <<"EQUAL", 1, 2, <<"a">>, <<"a">>>>,
                       <<"DELETE", 2, None, <<"b">>, <<>> >> >>

\* the diff of a, b against b, a: two common blocks of length one
C23_Witness ==
    /\ pc = "diffed"
    /\ context = None
    /\ left_lines = <<<<"a">>, <<"b">>>>
    /\ right_lines = <<<<"b">>, <<"a">>>>
    /\ Len(result) = 3

\* C24: in the raw stream every Equal record has left_text = right_text and
\* every Replace record has left_text # right_text
C24_TagsAgreeWithContent ==
    (pc = "diffed" /\ context = None) =>
        \A n \in 1..Len(result) :
            /\ result[n].tag = "EQUAL" => result[n].left_text = result[n].right_text
            /\ result[n].tag = "REPLACE" => result[n].left_text # result[n].right_text

\* a raw stream with two Replace records in a row next to an Equal record
C24_Witness ==
    /\ pc = "diffed"
    /\ context = None
    /\ HasTag(result, "EQUAL")
    /\ \E n \in 1..(Len(result) - 1) :
          result[n].tag = "REPLACE" /\ result[n + 1].tag = "REPLACE"

\* C25: the raw stream has only Equal records exactly when A = B, and the
\* raw stream of A against itself is len(A) Equal records, the i-th with
\* left_lineno = right_lineno = i
C25_NoFalseOrMissedDifference ==
    (pc = "diffed" /\ context = None) =>
        /\ (\A n \in 1..Len(result) : result[n].tag = "EQUAL")
              <=> (left_lines = right_lines)
        /\ left_lines = right_lines =>
              [n \in 1..Len(result) |-> Core(result[n])]
                  = [i \in 1..Len(left_lines) |->
                        <<"EQUAL", i, i, left_lines[i], left_lines[i]>>]

\* the raw stream of a text of MaxLen lines against itself
C25_Witness ==
    /\ pc = "diffed"
    /\ context = None
    /\ left_lines = right_lines
    /\ Len(left_lines) = MaxLen
    /\ Len(result) = MaxLen

\* C26: in the raw stream a Replace record never follows a Delete or Insert
\* record directly, and a Delete and an Insert record are never adjacent:
\* every run of non-Equal records is Replace records followed by only Delete
\* or only Insert records
C26_ChangeRunShape ==
    (pc = "diffed" /\ context = None) =>
        \A n \in 1..(Len(result) - 1) :
            /\ result[n].tag \in {"DELETE", "INSERT"} => result[n + 1].tag # "REPLACE"
            /\ result[n].tag = "DELETE" => result[n + 1].tag # "INSERT"
            /\ result[n].tag = "INSERT" => result[n + 1].tag # "DELETE"

\* a raw stream with two change runs, one of them a Replace followed by a
\* Delete
C26_Witness ==
    /\ pc = "diffed"
    /\ context = None
    /\ \E n \in 1..(Len(result) - 1) :
          result[n].tag = "REPLACE" /\ result[n + 1].tag = "DELETE"
    /\ \E n \in 2..(Len(result) - 1) :
          result[n].tag = "EQUAL" /\ result[n - 1].tag # "EQUAL"
              /\ result[n + 1].tag # "EQUAL"

\* the chunks of chs that have base lines
RECURSIVE BaseChunks(_)
BaseChunks(chs) ==
    IF chs = <<>> THEN <<>>
    ELSE (IF Head(chs).base_lines # <<>> THEN <<Head(chs)>> ELSE <<>>)
         \o BaseChunks(Tail(chs))

\* C27: the chunks with non-empty base_lines of merge3(B, L, R) and of
\* merge3(B, R, L) correspond one to one in order, with the same tag,
\* base_lines and result_lines and with left_lines and right_lines swapped
C27_MergeSymmetry ==
    pc = "merged" =>
        LET x == BaseChunks(chunks)
            y == BaseChunks(Merge3(base_lines, right_lines, left_lines))
        IN  /\ Len(x) = Len(y)
            /\ \A n \in 1..Len(x) :
                  y[n] = MergeChunk(x[n].tag, x[n].base_lines, x[n].right_lines,
                                    x[n].left_lines, x[n].result_lines)

\* a merge with a Conflict chunk and a region only the left side changed
C27_Witness ==
    /\ pc = "merged"
    /\ left_lines # right_lines
    /\ \E n \in 1..Len(chunks) : chunks[n].tag = "CONFLICT"
    /\ \E n \in 1..Len(chunks) :
          /\ chunks[n].tag = "RESOLVED"
          /\ chunks[n].base_lines # <<>>
          /\ chunks[n].right_lines = chunks[n].base_lines
          /\ chunks[n].result_lines = chunks[n].left_lines
          /\ chunks[n].left_lines # chunks[n].base_lines

\* the indices of the Conflict chunks of chs
ConflictIndices(chs) == {n \in 1..Len(chs) : chs[n].tag = "CONFLICT"}

\* C28: a Use Left / Use Right step resolves exactly the lowest-index
\* Conflict chunk and changes no other chunk, so each action lowers the
\* number of Conflict chunks by one until none is left (max(n - j, 0) after
\* j actions); with no Conflict chunk left the action changes nothing; a
\* Resolved chunk never becomes Conflict again
C28_ResolutionSequence ==
    [][/\ (UseLeft \/ UseRight) =>
             IF ConflictIndices(chunks) = {}
             THEN UNCHANGED <<chunks, left_rows, center_rows, right_rows>>
             ELSE LET n == CHOOSE n \in ConflictIndices(chunks) :
                               \A m \in ConflictIndices(chunks) : n <= m
                  IN  /\ Len(chunks') = Len(chunks)
                      /\ chunks'[n].tag = "RESOLVED"
                      /\ \A m \in 1..Len(chunks) : m # n => chunks'[m] = chunks[m]
                      /\ ConflictIndices(chunks') = ConflictIndices(chunks) \ {n}
                      /\ Cardinality(ConflictIndices(chunks'))
                            = Cardinality(ConflictIndices(chunks)) - 1
       /\ pc \in {"merged", "edited"} =>
             /\ Len(chunks') = Len(chunks)
             /\ \A m \in 1..Len(chunks) :
                   chunks[m].tag = "RESOLVED" => chunks'[m].tag = "RESOLVED"]_vars

\* one action after a merge with two Conflict chunks: the first is resolved,
\* the second is still a Conflict
C28_Witness ==
    /\ pc = "edited"
    /\ Len(chunks) = 3
    /\ chunks[1].tag = "RESOLVED"
    /\ chunks[1].result_lines \in {chunks[1].left_lines, chunks[1].right_lines}
    /\ chunks[1].left_lines # chunks[1].right_lines
    /\ chunks[3].tag = "CONFLICT"

\* C29: with no Conflict chunk left, Save emits the result_lines of all
\* chunks concatenated in order, one line per row, and no other row
C29_SavedResult ==
    [][(OnSave /\ ConflictIndices(chunks) = {}) =>
          merge_saved' = <<JoinLines(ConcatField(chunks, "result"))>>]_vars

\* C30: DiffView._fold_context(raw, k) returns the record sequence the
\* folding stage of diff_lines returns for the same raw stream and context k
C30_FoldImplementationsAgree ==
    pc = "view_folded" => result = Fold(raw, context)

\* the view has folded a raw stream with a change, and a Hunk marker stands
\* for omitted records
C30_Witness ==
    /\ pc = "view_folded"
    /\ HasTag(result, "HUNK")
    /\ \E n \in 1..Len(raw) : raw[n].tag # "EQUAL"
    /\ Len(result) < Len(raw)

====
